---- MODULE Spec2Model ----
(***************************************************************************)
(* Model of Source/savestate.c: the crash save state kept in EEPROM.       *)
(*                                                                         *)
(* The in-memory record global_gamesave is modelled as the byte array the  *)
(* code itself reads and writes it as (a uint8_t pointer to the struct), so *)
(* that the checksum, the EEPROM read and the EEPROM write act on the same *)
(* bytes as in the program.  The target is the N64 (big-endian MIPS, 32    *)
(* bit int, uint32_t aligned to 4).                                        *)
(***************************************************************************)
EXTENDS Integers, Sequences, FiniteSets, TLC

VARIABLES
    global_gamesave,        \* the GameSave record in memory, as bytes 0..sizeof-1
    global_cansave,         \* 1 when savestate_initialize found an EEPROM
    global_minigame_count,  \* number of entries of global_minigame_list
    eeprom,                 \* the EEPROM image, bytes 0..sizeof-1 from offset 0
    last,                   \* the call that ran last: its argument, its return value
                            \* and the calls it made to the state provider
    h_fullsaves,            \* history: number of full saves that reached the EEPROM
    h_hist,                 \* history: last full save / clear that reached the EEPROM
    h_formatted,            \* history: initialize formatted the record and no write followed
    h_first,                \* history: the first write to an unformatted EEPROM, while it
                            \* is the only write so far
    h_bl,                   \* history: the flags given to savestate_setblacklist, in
                            \* memory and written to the EEPROM
    global_selection,       \* the entry of the boot prompt that is selected
    level                   \* the level the core runs, or was last told to change to

vars == <<global_gamesave, global_cansave, global_minigame_count, eeprom, last,
          h_fullsaves, h_hist, h_formatted, h_first, h_bl, global_selection, level>>

----------------------------------------------------------------------------
(* Bounds of the exploration *)

MaxFullSaves == 2

----------------------------------------------------------------------------
(* struct GameSave, lines 19-31 *)

MAXPLAYERS == 4

\* byte offsets of the members; blacklist is a uint32_t after char[4], every
\* other member is one byte, and the struct is padded to a multiple of 4
OFF_header == 0
OFF_blacklist == 4
OFF_crashedflag == 8
OFF_aidiff == 9
OFF_pointstowin == 10
OFF_nextplaystyle == 11
OFF_playerconts == 12
OFF_points == 16
OFF_chooser == 20
OFF_curgame == 21
OFF_checksum == 22
OFF_padding == 23
SizeofGameSave == 24

RecIdx == 0..(SizeofGameSave - 1)
Players == 0..(MAXPLAYERS - 1)

ZeroRecord == [i \in RecIdx |-> 0]

\* "NBGJ"
Magic == <<78, 66, 71, 74>>

\* conversions of C: an integer stored to a uint8_t, a bool stored to a
\* uint8_t, a uint8_t read as a bool
ToU8(x) == x % 256
BoolToU8(b) == IF b THEN 1 ELSE 0
U8ToBool(x) == x # 0

----------------------------------------------------------------------------
(* 32-bit words as their four bytes in memory (big-endian: the byte at the *)
(* lowest address holds bits 31..24)                                       *)

Pow2(k) == 2 ^ k
BitOfByte(b, k) == (b \div Pow2(k)) % 2

\* a word is the tuple of its four bytes, the first at the lowest address;
\* bit i of the word is bit i % 8 of the byte at address 3 - i / 8
WordZero == <<0, 0, 0, 0>>
WordBit(w, i) == BitOfByte(w[4 - (i \div 8)], i % 8)
\* the word whose bit i is bits[i], bits a function on 0..31
WordOfBits(bits) ==
    LET byte(j) == bits[8 * j] + 2 * bits[8 * j + 1] + 4 * bits[8 * j + 2]
                   + 8 * bits[8 * j + 3] + 16 * bits[8 * j + 4] + 32 * bits[8 * j + 5]
                   + 64 * bits[8 * j + 6] + 128 * bits[8 * j + 7]
    IN  <<byte(3), byte(2), byte(1), byte(0)>>
\* bit k of (v & 0x01) << i, v in {0,1}, 0 <= i <= 31
ShlBit(v, i, k) == IF k = i THEN v ELSE 0

----------------------------------------------------------------------------
(* Accessors of the members of global_gamesave *)

Blacklist(rec) == <<rec[OFF_blacklist], rec[OFF_blacklist + 1],
                    rec[OFF_blacklist + 2], rec[OFF_blacklist + 3]>>
WithBlacklist(rec, w) ==
    [i \in RecIdx |-> IF i >= OFF_blacklist /\ i < OFF_blacklist + 4
                      THEN w[i - OFF_blacklist + 1] ELSE rec[i]]
Header(rec) == <<rec[0], rec[1], rec[2], rec[3]>>

----------------------------------------------------------------------------
(* calc_checksum, lines 60-67: a uint8_t sum over every byte of the record, *)
(* the checksum member and the padding included                            *)

RECURSIVE SumBytes(_, _)
SumBytes(rec, n) ==
    IF n = 0 THEN 0 ELSE ToU8(SumBytes(rec, n - 1) + rec[n - 1])

calc_checksum(rec) == SumBytes(rec, SizeofGameSave)

----------------------------------------------------------------------------
(* The state provider (core.h, results.h, minigame.h).  What its getters    *)
(* return when savestate_save asks (core_get_playerconts,                  *)
(* core_get_aidifficulty, results_get_points_to_win, results_get_points,   *)
(* core_get_nextround, core_get_curchooser, minigame_get_index) is an      *)
(* input of that call; what its setters are given by savestate_load is     *)
(* recorded with the call.                                                 *)

MinigameCounts == {4, 32}

\* getter values during a match
GameInMatch ==
    [playerconts    |-> [p \in Players |-> p < 3],
     aidifficulty   |-> 1,
     points_to_win  |-> 5,
     points         |-> [p \in Players |-> CASE p = 0 -> 10 [] p = 1 -> 20
                                             [] p = 2 -> 5  [] OTHER -> 0],
     nextround      |-> 1,
     curchooser     |-> 2,
     minigame_index |-> 3]

\* getter values of a match whose target score and one player's points do
\* not fit in a byte
GameWide ==
    [playerconts    |-> [p \in Players |-> p # 1],
     aidifficulty   |-> 2,
     points_to_win  |-> 300,
     points         |-> [p \in Players |-> CASE p = 0 -> 255 [] p = 1 -> 256
                                             [] p = 2 -> 7   [] OTHER -> 1],
     nextround      |-> 0,
     curchooser     |-> 3,
     minigame_index |-> 1]

GameStates == {GameInMatch, GameWide}

\* global_minigame_list: entry i carries the internal name of minigame i
MinigameName(i) == <<"minigame", i>>
GarbageName == <<"garbage", 0>>
global_minigame_list ==
    [i \in 0..(global_minigame_count - 1) |-> [internalname |-> MinigameName(i)]]

\* what global_minigame_list[idx].internalname can evaluate to: the entry's
\* name, or, for an index past the table, whatever lies behind the table
\* (read as the name of some entry, here the first, or as no name at all)
ListedNames(idx) ==
    IF idx < global_minigame_count
    THEN {global_minigame_list[idx].internalname}
    ELSE {global_minigame_list[0].internalname, GarbageName}

----------------------------------------------------------------------------
(* The levels of the core (core_level_changeto); the program starts in the *)
(* level of the boot prompt                                                *)

LEVEL_LOADSAVE == "LEVEL_LOADSAVE"
LEVEL_MAINMENU == "LEVEL_MAINMENU"
LEVEL_MINIGAME == "LEVEL_MINIGAME"

----------------------------------------------------------------------------
(* History kept beside the program state *)

\* h_first after eeprom_write_bytes: kind is "config" or "full" for a save, "none"
\* for a clear; only the write that finds no magic on the EEPROM is a first write
FirstAfterWrite(kind) == IF Header(eeprom) # Magic THEN kind ELSE "none"
\* h_first after the process restarted
FirstAfterRestart(h) ==
    CASE h = "config" -> "config_restarted"
      [] h = "full"   -> "full_restarted"
      [] OTHER        -> h

\* h_bl after eeprom_write_bytes: the flags set in memory are on the EEPROM
BlCommitted(h) == IF h.mem # <<>> THEN [h EXCEPT !.sto = h.mem] ELSE h
\* h_bl after the record in memory is replaced (zeroed statics, or the read of
\* line 86): flags set and not written are gone
BlDropped(h) ==
    [mem |-> <<>>, sto |-> h.sto,
     lost |-> IF h.mem # <<>> THEN h.mem # h.sto ELSE h.lost]

----------------------------------------------------------------------------
(* The EEPROM before the program first runs *)

\* never written: every byte reads 0xFF
BlankImageFF == [i \in RecIdx |-> 255]
\* the magic and an empty blacklist in the first 8-byte block, the other
\* blocks never written
MagicOnlyImage == [i \in RecIdx |-> IF i < 4 THEN Magic[i + 1]
                                    ELSE IF i < 8 THEN 0 ELSE 255]
\* written by another program: the first three bytes of the magic, then bytes
\* that are neither 0 nor 0xFF (the crashed byte at offset 8 is 57)
GarbageImage == [i \in RecIdx |-> IF i < 3 THEN Magic[i + 1] ELSE 7 * i + 1]
EepromImages == {BlankImageFF, MagicOnlyImage, GarbageImage}

----------------------------------------------------------------------------
(* savestate_initialize, lines 76-101 *)

\* faulty variant: line 96 left out, the checksum stays 0 after the memset
FormatRecord_NoChecksum ==
    [i \in RecIdx |-> IF i < 4 THEN Magic[i + 1] ELSE 0]

\* lines 91-96
FormatRecord ==
    LET z == [i \in RecIdx |-> IF i < 4 THEN Magic[i + 1] ELSE 0]
    IN  [z EXCEPT ![OFF_checksum] = calc_checksum(z)]

\* faulty variant: the record is formatted whatever the EEPROM holds
InitializedRecord_AlwaysFormat(image) == FormatRecord

\* faulty variant: the blacklist of a record read with the magic is emptied
InitializedRecord_BlacklistReset(image) ==
    IF Header(image) # Magic THEN FormatRecord
    ELSE WithBlacklist(image, WordZero)

\* faulty variant: a record read with the magic has its crashed flag reset
InitializedRecord_FlagDropped(image) ==
    IF Header(image) # Magic THEN FormatRecord
    ELSE [image EXCEPT ![OFF_crashedflag] = 0]

\* the record after eeprom_read_bytes and the strncmp of line 89
InitializedRecord(image) ==
    IF Header(image) # Magic THEN FormatRecord ELSE image

\* faulty variant: the formatted record is written to the EEPROM at once
savestate_initialize_Persists(present) ==
    /\ global_cansave' = IF present THEN 1 ELSE 0
    /\ global_gamesave' = IF present THEN InitializedRecord(eeprom) ELSE global_gamesave
    /\ eeprom' = IF present THEN global_gamesave' ELSE eeprom
    /\ h_formatted' = IF present THEN Header(eeprom) # Magic ELSE h_formatted
    /\ last' = [op |-> "initialize", ret |-> present]
    /\ h_bl' = IF present THEN BlDropped(h_bl) ELSE h_bl
    /\ UNCHANGED <<global_minigame_count, h_fullsaves, h_hist, h_first,
                   global_selection, level>>

savestate_initialize(present) ==
    /\ global_cansave' = IF present THEN 1 ELSE 0
    /\ global_gamesave' = IF present THEN InitializedRecord(eeprom) ELSE global_gamesave
    /\ h_formatted' = IF present THEN Header(eeprom) # Magic ELSE h_formatted
    /\ last' = [op |-> "initialize", ret |-> present]
    /\ h_bl' = IF present THEN BlDropped(h_bl) ELSE h_bl
    /\ UNCHANGED <<global_minigame_count, eeprom, h_fullsaves, h_hist, h_first,
                   global_selection, level>>

----------------------------------------------------------------------------
(* savestate_checkcrashed, lines 110-113 *)

checkcrashed(rec) == U8ToBool(rec[OFF_crashedflag])

savestate_checkcrashed ==
    /\ last' = [op |-> "checkcrashed", ret |-> checkcrashed(global_gamesave)]
    /\ UNCHANGED <<global_gamesave, global_cansave, global_minigame_count, eeprom,
                   h_fullsaves, h_hist, h_formatted, h_first, h_bl, global_selection,
                   level>>

----------------------------------------------------------------------------
(* savestate_save, lines 122-147 *)

\* faulty variant: line 131 left out, the crashed flag is not set
GrabGameState_NoCrashFlag(rec, g) ==
    LET r1 == [i \in RecIdx |->
                 IF i >= OFF_playerconts /\ i < OFF_playerconts + MAXPLAYERS
                      THEN BoolToU8(g.playerconts[i - OFF_playerconts])
                 ELSE IF i = OFF_aidiff THEN ToU8(g.aidifficulty)
                 ELSE IF i = OFF_pointstowin THEN ToU8(g.points_to_win)
                 ELSE IF i >= OFF_points /\ i < OFF_points + MAXPLAYERS
                      THEN ToU8(g.points[i - OFF_points])
                 ELSE IF i = OFF_nextplaystyle THEN ToU8(g.nextround)
                 ELSE IF i = OFF_chooser THEN ToU8(g.curchooser)
                 ELSE IF i = OFF_curgame THEN ToU8(g.minigame_index)
                 ELSE rec[i]]
    IN  [r1 EXCEPT ![OFF_checksum] = calc_checksum(r1)]

\* faulty variant: line 138 reads results_get_points(PLAYER_1) for every player
GrabGameState_SamePoints(rec, g) ==
    LET r1 == [i \in RecIdx |->
                 IF i = OFF_crashedflag THEN 1
                 ELSE IF i >= OFF_playerconts /\ i < OFF_playerconts + MAXPLAYERS
                      THEN BoolToU8(g.playerconts[i - OFF_playerconts])
                 ELSE IF i = OFF_aidiff THEN ToU8(g.aidifficulty)
                 ELSE IF i = OFF_pointstowin THEN ToU8(g.points_to_win)
                 ELSE IF i >= OFF_points /\ i < OFF_points + MAXPLAYERS
                      THEN ToU8(g.points[0])
                 ELSE IF i = OFF_nextplaystyle THEN ToU8(g.nextround)
                 ELSE IF i = OFF_chooser THEN ToU8(g.curchooser)
                 ELSE IF i = OFF_curgame THEN ToU8(g.minigame_index)
                 ELSE rec[i]]
    IN  [r1 EXCEPT ![OFF_checksum] = calc_checksum(r1)]

\* lines 130-142: the record after the game state is grabbed
GrabGameState(rec, g) ==
    LET r1 == [i \in RecIdx |->
                 IF i = OFF_crashedflag THEN 1
                 ELSE IF i >= OFF_playerconts /\ i < OFF_playerconts + MAXPLAYERS
                      THEN BoolToU8(g.playerconts[i - OFF_playerconts])
                 ELSE IF i = OFF_aidiff THEN ToU8(g.aidifficulty)
                 ELSE IF i = OFF_pointstowin THEN ToU8(g.points_to_win)
                 ELSE IF i >= OFF_points /\ i < OFF_points + MAXPLAYERS
                      THEN ToU8(g.points[i - OFF_points])
                 ELSE IF i = OFF_nextplaystyle THEN ToU8(g.nextround)
                 ELSE IF i = OFF_chooser THEN ToU8(g.curchooser)
                 ELSE IF i = OFF_curgame THEN ToU8(g.minigame_index)
                 ELSE rec[i]]
    IN  [r1 EXCEPT ![OFF_checksum] = calc_checksum(r1)]

\* faulty variant: the test of line 128 left out, every save grabs the game state
SavedRecord_AlwaysGrab(rec, g, configonly) == GrabGameState(rec, g)

\* faulty variant: line 131 moved above the test of line 128, every save sets
\* the crashed flag
SavedRecord_FlagAlways(rec, g, configonly) ==
    IF configonly THEN [rec EXCEPT ![OFF_crashedflag] = 1] ELSE GrabGameState(rec, g)

SavedRecord(rec, g, configonly) ==
    IF configonly THEN rec ELSE GrabGameState(rec, g)

savestate_save(configonly, g) ==
    /\ last' = [op |-> "save", arg |-> configonly]
    /\ IF global_cansave = 0
       THEN UNCHANGED <<global_gamesave, eeprom, h_fullsaves, h_hist, h_formatted,
                        h_first, h_bl>>
       ELSE /\ configonly \/ h_fullsaves < MaxFullSaves
            /\ h_first' = FirstAfterWrite(IF configonly THEN "config" ELSE "full")
            /\ h_bl' = BlCommitted(h_bl)
            /\ global_gamesave' = SavedRecord(global_gamesave, g, configonly)
            /\ eeprom' = global_gamesave'
            /\ h_formatted' = FALSE
            /\ h_fullsaves' = IF configonly THEN h_fullsaves ELSE h_fullsaves + 1
            /\ h_hist' = IF configonly THEN h_hist
                         ELSE [kind |-> "saved", restarted |-> FALSE, g |-> g]
    /\ UNCHANGED <<global_cansave, global_minigame_count, global_selection, level>>

----------------------------------------------------------------------------
(* savestate_load, lines 155-175 *)

\* faulty variant: line 169 gives PLAYER_2 the points of player 1
LoadedGame_WrongPoints(rec) ==
    [playerconts    |-> [p \in Players |-> U8ToBool(rec[OFF_playerconts + p])],
     aidifficulty   |-> rec[OFF_aidiff],
     points_to_win  |-> rec[OFF_pointstowin],
     points         |-> [p \in Players |-> rec[OFF_points + (IF p = 1 THEN 0 ELSE p)]],
     nextround      |-> rec[OFF_nextplaystyle],
     curchooser     |-> rec[OFF_chooser]]

\* lines 163-173: what the setters of the state provider receive
LoadedGame(rec) ==
    [playerconts    |-> [p \in Players |-> U8ToBool(rec[OFF_playerconts + p])],
     aidifficulty   |-> rec[OFF_aidiff],
     points_to_win  |-> rec[OFF_pointstowin],
     points         |-> [p \in Players |-> rec[OFF_points + p]],
     nextround      |-> rec[OFF_nextplaystyle],
     curchooser     |-> rec[OFF_chooser]]

\* faulty variant: the load consumes the crash, crashedflag is reset in memory
savestate_load_DropsFlag ==
    /\ IF global_cansave = 0
       THEN /\ last' = [op |-> "load", set |-> <<>>, loadnext |-> <<>>]
            /\ UNCHANGED global_gamesave
       ELSE /\ \E name \in ListedNames(global_gamesave[OFF_curgame]) :
                   last' = [op |-> "load", set |-> <<LoadedGame(global_gamesave)>>,
                            loadnext |-> <<name>>]
            /\ global_gamesave' = [global_gamesave EXCEPT ![OFF_crashedflag] = 0]
    /\ UNCHANGED <<global_cansave, global_minigame_count, eeprom,
                   h_fullsaves, h_hist, h_formatted, h_first, h_bl, global_selection,
                   level>>

\* the calls savestate_load makes: the values given to core_set_playercount,
\* core_set_aidifficulty, results_set_points_to_win, results_set_points,
\* core_set_nextround and core_set_curchooser, and the name given to
\* minigame_loadnext; none when global_cansave is 0 (line 159)
savestate_load ==
    /\ IF global_cansave = 0
       THEN last' = [op |-> "load", set |-> <<>>, loadnext |-> <<>>]
       ELSE \E name \in ListedNames(global_gamesave[OFF_curgame]) :
                last' = [op |-> "load", set |-> <<LoadedGame(global_gamesave)>>,
                         loadnext |-> <<name>>]
    /\ UNCHANGED <<global_gamesave, global_cansave, global_minigame_count, eeprom,
                   h_fullsaves, h_hist, h_formatted, h_first, h_bl, global_selection,
                   level>>

----------------------------------------------------------------------------
(* savestate_clear, lines 183-189 *)

\* faulty variant: line 187 left out
ClearedRecord_FlagKept(rec) == rec

\* line 187
ClearedRecord(rec) == [rec EXCEPT ![OFF_crashedflag] = 0]

\* faulty variant: line 188 writes the crashedflag member only
savestate_clear_FlagOnly ==
    /\ last' = [op |-> "clear"]
    /\ IF global_cansave = 0
       THEN UNCHANGED <<global_gamesave, eeprom, h_hist, h_formatted, h_first, h_bl>>
       ELSE /\ global_gamesave' = ClearedRecord(global_gamesave)
            /\ eeprom' = [eeprom EXCEPT ![OFF_crashedflag] = 0]
            /\ h_formatted' = FALSE
            /\ h_hist' = [h_hist EXCEPT !.kind = "cleared", !.restarted = FALSE]
            /\ h_first' = FirstAfterWrite("none")
            /\ h_bl' = BlCommitted(h_bl)
    /\ UNCHANGED <<global_cansave, global_minigame_count, h_fullsaves,
                   global_selection, level>>

savestate_clear ==
    /\ last' = [op |-> "clear"]
    /\ IF global_cansave = 0
       THEN UNCHANGED <<global_gamesave, eeprom, h_hist, h_formatted, h_first, h_bl>>
       ELSE /\ global_gamesave' = ClearedRecord(global_gamesave)
            /\ eeprom' = global_gamesave'
            /\ h_formatted' = FALSE
            /\ h_hist' = [h_hist EXCEPT !.kind = "cleared", !.restarted = FALSE]
            /\ h_first' = FirstAfterWrite("none")
            /\ h_bl' = BlCommitted(h_bl)
    /\ UNCHANGED <<global_cansave, global_minigame_count, h_fullsaves,
                   global_selection, level>>

----------------------------------------------------------------------------
(* savestate_setblacklist, lines 191-197; savestate_getblacklist, 199-203 *)

\* faulty variant: the loop of line 194 stops one round early
PackBits_ShortLoop(list, n) ==
    WordOfBits([k \in 0..31 |-> IF k < n - 1 THEN ShlBit(BoolToU8(list[k]), k, k) ELSE 0])

\* bitfield after the loop of lines 193-195.  Round i ORs (list[i] & 0x01) << i
\* into bitfield, which starts at 0; the word of round i has no bit but bit i,
\* so bit k of the result is bit k of the word of round k, for k < n
PackBits(list, n) ==
    WordOfBits([k \in 0..31 |-> IF k < n THEN ShlBit(BoolToU8(list[k]), k, k) ELSE 0])

\* lines 201-202
UnpackBits(w, n) == [i \in 0..(n - 1) |-> WordBit(w, i) = 1]

\* the flag arrays the callers pass: every minigame, the last minigame only
FlagLists(n) ==
    { [i \in 0..(n - 1) |-> TRUE],
      [i \in 0..(n - 1) |-> i = n - 1] }

savestate_setblacklist(list) ==
    /\ global_gamesave' =
           WithBlacklist(global_gamesave, PackBits(list, global_minigame_count))
    /\ last' = [op |-> "setblacklist", arg |-> list]
    /\ h_bl' = [h_bl EXCEPT !.mem = <<list>>, !.lost = FALSE]
    /\ UNCHANGED <<global_cansave, global_minigame_count, eeprom, h_fullsaves, h_hist,
                   h_formatted, h_first, global_selection, level>>

savestate_getblacklist ==
    /\ last' = [op |-> "getblacklist",
                ret |-> UnpackBits(Blacklist(global_gamesave), global_minigame_count)]
    /\ UNCHANGED <<global_gamesave, global_cansave, global_minigame_count, eeprom,
                   h_fullsaves, h_hist, h_formatted, h_first, h_bl, global_selection,
                   level>>

----------------------------------------------------------------------------
(* loadsave_init, lines 210-220; loadsave_loop, lines 222-259 (the boot     *)
(* prompt; the drawing of lines 261-286 changes no state)                  *)

loadsave_init ==
    LET tomenu == ~checkcrashed(global_gamesave) /\ global_cansave # 0
    IN  /\ global_selection' = 0
        /\ level' = IF tomenu THEN LEVEL_MAINMENU ELSE level
        /\ last' = [op |-> "loadsave_init",
                    changeto |-> IF tomenu THEN <<LEVEL_MAINMENU>> ELSE <<>>]
        /\ UNCHANGED <<global_gamesave, global_cansave, global_minigame_count, eeprom,
                       h_fullsaves, h_hist, h_formatted, h_first, h_bl>>

\* lines 225, 230-231
maxselection == IF global_cansave = 0 THEN 1 ELSE 2

\* lines 234-245: global_selection after the left and right branches
MovedSelection(sel, max, isleft, isright) ==
    IF isleft THEN (IF sel + 1 > max - 1 THEN 0 ELSE sel + 1)
    ELSE IF isright THEN (IF sel - 1 < 0 THEN max - 1 ELSE sel - 1)
    ELSE sel

\* faulty variant: line 248 does not look at global_selection
Chosen_AnySelection(crashed, sel) ==
    IF crashed THEN "restore" ELSE "menu"

\* lines 248-258: what an A press does: restore the save, decline it (clear,
\* then the main menu), or only go to the main menu
Chosen(crashed, sel) ==
    IF crashed /\ sel = 0 THEN "restore"
    ELSE IF crashed THEN "decline" ELSE "menu"

\* left, right, a: what controller_isleft, controller_isright and controller_isa
\* return when they are called
loadsave_loop(left, right, a) ==
    LET crashed  == checkcrashed(global_gamesave)
        returned == ~crashed /\ global_cansave # 0
        isleft   == ~returned /\ left
        isright  == ~returned /\ ~left /\ right
        isa      == ~returned /\ ~left /\ ~right /\ a
        choice   == IF isa THEN Chosen(crashed, global_selection) ELSE "none"
        clears   == choice = "decline" /\ global_cansave # 0
    IN  /\ global_selection' =
               MovedSelection(global_selection, maxselection, isleft, isright)
        /\ level' = CASE choice = "restore" -> LEVEL_MINIGAME
                      [] choice \in {"decline", "menu"} -> LEVEL_MAINMENU
                      [] OTHER -> level
        /\ IF clears
           THEN /\ global_gamesave' = ClearedRecord(global_gamesave)
                /\ eeprom' = global_gamesave'
                /\ h_formatted' = FALSE
                /\ h_hist' = [h_hist EXCEPT !.kind = "declined", !.restarted = FALSE]
                /\ h_first' = FirstAfterWrite("none")
                /\ h_bl' = BlCommitted(h_bl)
           ELSE UNCHANGED <<global_gamesave, eeprom, h_formatted, h_hist, h_first, h_bl>>
        /\ \E name \in ListedNames(global_gamesave[OFF_curgame]) :
               last' = [op       |-> "loadsave_loop",
                        returned |-> returned,
                        isa      |-> isa,
                        calls    |-> CASE choice = "restore" -> <<"savestate_load">>
                                       [] choice = "decline" -> <<"savestate_clear">>
                                       [] OTHER -> <<>>,
                        set      |-> IF choice = "restore" /\ global_cansave # 0
                                     THEN <<LoadedGame(global_gamesave)>> ELSE <<>>,
                        loadnext |-> IF choice = "restore" /\ global_cansave # 0
                                     THEN <<name>> ELSE <<>>,
                        changeto |-> CASE choice = "restore" -> <<LEVEL_MINIGAME>>
                                       [] choice \in {"decline", "menu"} -> <<LEVEL_MAINMENU>>
                                       [] OTHER -> <<>>]
        /\ UNCHANGED <<global_cansave, global_minigame_count, h_fullsaves>>

----------------------------------------------------------------------------
(* The process ending (crash, reset or power-off) and starting again with  *)
(* its statics zeroed (lines 47-49) while the EEPROM keeps its content     *)

Restart ==
    /\ global_gamesave' = ZeroRecord
    /\ global_cansave' = 0
    /\ h_formatted' = FALSE
    /\ last' = [op |-> "boot"]
    /\ h_hist' = [h_hist EXCEPT !.restarted = TRUE]
    /\ h_first' = FirstAfterRestart(h_first)
    /\ h_bl' = BlDropped(h_bl)
    /\ global_selection' = 0
    /\ level' = LEVEL_LOADSAVE
    /\ UNCHANGED <<global_minigame_count, eeprom, h_fullsaves>>

----------------------------------------------------------------------------

Init ==
    /\ global_gamesave = ZeroRecord
    /\ global_cansave = 0
    /\ global_minigame_count \in MinigameCounts
    /\ eeprom \in EepromImages
    /\ last = [op |-> "boot"]
    /\ h_fullsaves = 0
    /\ h_hist = [kind |-> "none", restarted |-> FALSE, g |-> GameInMatch]
    /\ h_formatted = FALSE
    /\ h_first = "none"
    /\ h_bl = [mem |-> <<>>, sto |-> <<>>, lost |-> FALSE]
    /\ global_selection = 0
    /\ level = LEVEL_LOADSAVE

Next ==
    \/ \E present \in BOOLEAN : savestate_initialize(present)
    \/ savestate_checkcrashed
    \/ \E configonly \in BOOLEAN, g \in GameStates : savestate_save(configonly, g)
    \/ savestate_load
    \/ savestate_clear
    \/ \E list \in FlagLists(global_minigame_count) : savestate_setblacklist(list)
    \/ savestate_getblacklist
    \/ Restart

Spec == Init /\ [][Next]_vars

----------------------------------------------------------------------------
(* The program from its start: savestate_initialize once, then the level of *)
(* the boot prompt (loadsave_init, then loadsave_loop once a frame), then  *)
(* the game, which saves and clears, until the process ends                *)

boot_initialize(present) ==
    /\ last.op = "boot"
    /\ savestate_initialize(present)

boot_loadsave_init ==
    /\ last.op = "initialize"
    /\ loadsave_init

boot_loadsave_loop(left, right, a) ==
    /\ last.op \in {"loadsave_init", "loadsave_loop"}
    /\ loadsave_loop(left, right, a)

game_save(configonly, g) ==
    /\ level # LEVEL_LOADSAVE
    /\ savestate_save(configonly, g)

game_clear ==
    /\ level # LEVEL_LOADSAVE
    /\ savestate_clear

NextBoot ==
    \/ \E present \in BOOLEAN : boot_initialize(present)
    \/ boot_loadsave_init
    \/ \E left, right, a \in BOOLEAN : boot_loadsave_loop(left, right, a)
    \/ \E configonly \in BOOLEAN, g \in GameStates : game_save(configonly, g)
    \/ game_clear
    \/ Restart

SpecBoot == Init /\ [][NextBoot]_vars

----------------------------------------------------------------------------
(* Properties *)

\* the checksum member equals the sum of all other bytes of the record mod 256
RECURSIVE SumOtherBytes(_, _)
SumOtherBytes(rec, n) ==
    IF n = 0 THEN 0
    ELSE (SumOtherBytes(rec, n - 1) + (IF n - 1 = OFF_checksum THEN 0 ELSE rec[n - 1])) % 256
ChecksumValid(rec) == rec[OFF_checksum] = SumOtherBytes(rec, SizeofGameSave)

\* the last call was a full-update save (configonly false) / a config-only save
\* that reached the EEPROM
AfterFullSave == last.op = "save" /\ ~last.arg /\ global_cansave = 1
AfterConfigSave == last.op = "save" /\ last.arg /\ global_cansave = 1
AfterClear == last.op = "clear" /\ global_cansave = 1
\* the last call was savestate_initialize and it found the EEPROM
AfterInitializeFound == last.op = "initialize" /\ last.ret

\* C1: when the last write that touched the crashed flag was a full save (no
\* clear since), savestate_initialize finding the EEPROM, in particular after a
\* restart, leaves a record for which savestate_checkcrashed returns true.
Thm_C1 ==
    (AfterInitializeFound /\ h_hist.kind = "saved")
        => checkcrashed(global_gamesave)

Wit_C1 ==
    /\ AfterInitializeFound
    /\ h_hist.kind = "saved"
    /\ h_hist.restarted
    /\ checkcrashed(global_gamesave)

\* every getter value of g fits in a uint8_t
FitsInByte(g) ==
    /\ g.aidifficulty <= 255 /\ g.points_to_win <= 255 /\ g.nextround <= 255
    /\ g.curchooser <= 255 /\ g.minigame_index <= 255
    /\ \A p \in Players : g.points[p] <= 255

\* the setters of savestate_load were given exactly the getter values g
PushedIs(set, g) ==
    /\ \A p \in Players : set.playerconts[p] = g.playerconts[p]
    /\ \A p \in Players : set.points[p] = g.points[p]
    /\ set.aidifficulty = g.aidifficulty
    /\ set.points_to_win = g.points_to_win
    /\ set.nextround = g.nextround
    /\ set.curchooser = g.curchooser

\* C2: once a full save has reached the EEPROM with getter values that fit in
\* a byte, a savestate_load that acts (after a restart and an initialize that
\* found the EEPROM, or in the same run) gives the setters exactly the values of
\* the last such save and asks for the minigame whose index was current then.
Thm_C2 ==
    (/\ last.op = "load" /\ global_cansave = 1
     /\ h_fullsaves > 0
     /\ FitsInByte(h_hist.g))
        => /\ Len(last.set) = 1
           /\ PushedIs(last.set[1], h_hist.g)
           /\ last.loadnext = <<MinigameName(h_hist.g.minigame_index)>>

Wit_C2 ==
    /\ last.op = "load" /\ global_cansave = 1
    /\ h_hist.kind = "saved" /\ h_hist.restarted
    /\ h_hist.g = GameInMatch
    /\ last.loadnext = <<MinigameName(3)>>

\* C3: after a full-update save that reached the EEPROM, the record in memory
\* and the EEPROM image have checksum = sum of all other bytes mod 256.
Cex_C3 ==
    AfterFullSave => ChecksumValid(global_gamesave) /\ ChecksumValid(eeprom)

\* C4: after a clear that reached the EEPROM, the record in memory and the
\* EEPROM image have checksum = sum of all other bytes mod 256.
Cex_C4 ==
    AfterClear => ChecksumValid(global_gamesave) /\ ChecksumValid(eeprom)

\* C5: after a full-update save with global_cansave set,
\* savestate_checkcrashed returns true.
Thm_C5 == AfterFullSave => checkcrashed(global_gamesave)

Wit_C5 == AfterFullSave /\ global_gamesave[OFF_crashedflag] = 1 /\ h_fullsaves = 2

\* C6: after a clear that reached the EEPROM, savestate_checkcrashed returns
\* false and the crashed byte of the EEPROM image is 0; and while that clear is
\* the last write that touched the flag, savestate_initialize finding the
\* EEPROM, in particular after a restart, leaves crashed() false.
Thm_C6 ==
    /\ AfterClear => (~checkcrashed(global_gamesave) /\ eeprom[OFF_crashedflag] = 0)
    /\ (AfterInitializeFound /\ h_hist.kind = "cleared")
           => ~checkcrashed(global_gamesave)

Wit_C6 ==
    /\ AfterInitializeFound
    /\ h_hist.kind = "cleared"
    /\ h_hist.restarted
    /\ h_fullsaves > 0
    /\ ~checkcrashed(global_gamesave)

\* C7: with global_cansave 0, savestate_checkcrashed returns false.
Cex_C7 ==
    (last.op = "checkcrashed" /\ global_cansave = 0) => ~last.ret

\* the rest of C7: with global_cansave 0, save, load and clear change neither
\* the record nor the EEPROM, and load gives the state provider nothing
NoOp_C7 ==
    [][(global_cansave = 0 /\ last'.op \in {"save", "load", "clear"})
          => /\ global_gamesave' = global_gamesave
             /\ eeprom' = eeprom
             /\ (last'.op = "load" => last'.set = <<>> /\ last'.loadnext = <<>>)]_vars

\* the bytes of the blacklist member
BlacklistBytes == OFF_blacklist..(OFF_blacklist + 3)

\* C8 as stated: a config-only save (configonly true) leaves every byte of the
\* record in memory as it was, writes that record to the EEPROM, and changes
\* no byte of the EEPROM image but those of the blacklist.
Cex_C8 ==
    [][(global_cansave = 1 /\ last'.op = "save" /\ last'.arg)
          => /\ global_gamesave' = global_gamesave
             /\ eeprom' = global_gamesave
             /\ \A i \in RecIdx \ BlacklistBytes : eeprom'[i] = eeprom[i]]_vars

\* C8 as amended: the same, the bytes outside the blacklist being untouched
\* unless savestate_initialize formatted the record and nothing was written
\* since.
Thm_C8 ==
    [][(global_cansave = 1 /\ last'.op = "save" /\ last'.arg)
          => /\ global_gamesave' = global_gamesave
             /\ eeprom' = global_gamesave
             /\ (~h_formatted =>
                    \A i \in RecIdx \ BlacklistBytes : eeprom'[i] = eeprom[i])]_vars

Wit_C8 ==
    /\ AfterConfigSave
    /\ ~h_formatted
    /\ h_fullsaves > 0
    /\ Blacklist(eeprom) # WordZero

\* C9: right after savestate_setblacklist(list), bit i of the blacklist member
\* is list[i] for i < global_minigame_count and 0 for the other bits, and a
\* savestate_getblacklist that follows directly returns list.
Thm_C9 ==
    /\ [](last.op = "setblacklist" =>
            \A i \in 0..31 :
                WordBit(Blacklist(global_gamesave), i) =
                    (IF i < global_minigame_count /\ last.arg[i] THEN 1 ELSE 0))
    /\ [][(last.op = "setblacklist" /\ last'.op = "getblacklist")
             => last'.ret = last.arg]_vars

Wit_C9 ==
    /\ last.op = "getblacklist"
    /\ global_minigame_count = 32
    /\ last.ret = [i \in 0..31 |-> i = 31]

\* what C10 says the setters get for the record rec
PushedFromRecord(set, rec) ==
    /\ \A p \in Players : set.points[p] = rec[OFF_points + p]
    /\ \A p \in Players : set.playerconts[p] = (rec[OFF_playerconts + p] # 0)
    /\ set.aidifficulty = rec[OFF_aidiff]
    /\ set.points_to_win = rec[OFF_pointstowin]
    /\ set.nextround = rec[OFF_nextplaystyle]
    /\ set.curchooser = rec[OFF_chooser]

Thm_C11 ==
    [][last'.op = "load"
          => /\ global_gamesave' = global_gamesave
             /\ checkcrashed(global_gamesave') = checkcrashed(global_gamesave)]_vars

Wit_C11 ==
    /\ last.op = "load" /\ global_cansave = 1
    /\ Len(last.set) = 1
    /\ checkcrashed(global_gamesave)
    /\ h_fullsaves > 0

\* C12: after a savestate_initialize that found the EEPROM with an image whose
\* first four bytes are not "NBGJ", the call has returned true, the record has
\* the magic, every other byte but the checksum is 0 (crashed() false, empty
\* blacklist) and the checksum is the sum of all other bytes mod 256.
Thm_C12 ==
    (last.op = "initialize" /\ global_cansave = 1 /\ Header(eeprom) # Magic)
        => /\ last.ret
           /\ Header(global_gamesave) = Magic
           /\ \A i \in RecIdx \ {0, 1, 2, 3, OFF_checksum} : global_gamesave[i] = 0
           /\ ~checkcrashed(global_gamesave)
           /\ Blacklist(global_gamesave) = WordZero
           /\ ChecksumValid(global_gamesave)

Wit_C12 ==
    /\ last.op = "initialize" /\ last.ret
    /\ eeprom = GarbageImage
    /\ global_gamesave[OFF_checksum] = 33
    /\ h_hist.restarted

\* C13: only savestate_save and savestate_clear change the EEPROM image: a
\* step of savestate_initialize (formatting or not), savestate_checkcrashed,
\* savestate_load, savestate_setblacklist or savestate_getblacklist, and the
\* process restarting, leave every byte of it as it was.
Thm_C13 ==
    [][last'.op \notin {"save", "clear"} => eeprom' = eeprom]_vars

Wit_C13 ==
    /\ last.op = "initialize" /\ last.ret
    /\ h_formatted
    /\ Header(global_gamesave) = Magic
    /\ eeprom = BlankImageFF

\* C14 as stated: when the first write to an unformatted EEPROM was a save, of
\* either argument, and the process restarted after it, savestate_initialize
\* finding the EEPROM leaves crashed() false.
Cex_C14 ==
    (AfterInitializeFound /\ h_first \in {"config_restarted", "full_restarted"})
        => ~checkcrashed(global_gamesave)

\* C14 as amended: the same for a first save that is config-only (configonly
\* true): the image has the crashed byte 0 and crashed() is false after the
\* restart; after a first save that is a full update crashed() is true.
Thm_C14 ==
    /\ h_first \in {"config", "config_restarted"} => eeprom[OFF_crashedflag] = 0
    /\ (AfterInitializeFound /\ h_first = "config_restarted")
           => ~checkcrashed(global_gamesave)
    /\ (AfterInitializeFound /\ h_first = "full_restarted")
           => checkcrashed(global_gamesave)

Wit_C14 ==
    /\ AfterInitializeFound
    /\ h_first = "config_restarted"
    /\ Header(eeprom) = Magic
    /\ ~checkcrashed(global_gamesave)

\* C15: after every savestate_initialize that returned true, the record in
\* memory has checksum = sum of all other bytes mod 256, whatever the EEPROM
\* held.
Cex_C15 == AfterInitializeFound => ChecksumValid(global_gamesave)

\* C16: right after every savestate_save (either argument) and every
\* savestate_clear that ran with global_cansave 1, the EEPROM image equals the
\* record in memory in every byte from offset 0.
Thm_C16 ==
    (AfterFullSave \/ AfterConfigSave \/ AfterClear)
        => \A i \in RecIdx : eeprom[i] = global_gamesave[i]

Wit_C16 ==
    /\ AfterClear
    /\ h_bl.mem # <<>> /\ h_bl.sto = h_bl.mem
    /\ Blacklist(eeprom) # WordZero
    /\ h_fullsaves > 0
    /\ eeprom = global_gamesave

StoredFlags ==
    IF h_bl.sto = <<>> THEN [i \in 0..(global_minigame_count - 1) |-> FALSE]
    ELSE h_bl.sto[1]

\* C18: with global_cansave 1, a write (config-only save, full save or clear)
\* after savestate_setblacklist(flags) puts flags on the EEPROM; and a
\* savestate_getblacklist in a process that found the EEPROM at
\* savestate_initialize and has set no blacklist since returns the flags last
\* written, so it returns flags after such a write and a restart, and the
\* flags written before when the restart came without a write.
Thm_C18 ==
    /\ (global_cansave = 1 /\ last.op \in {"save", "clear"} /\ h_bl.mem # <<>>)
           => /\ h_bl.sto = h_bl.mem
              /\ UnpackBits(Blacklist(eeprom), global_minigame_count) = h_bl.mem[1]
    /\ (last.op = "getblacklist" /\ global_cansave = 1 /\ h_bl.mem = <<>>)
           => last.ret = StoredFlags

Wit_C18 ==
    /\ last.op = "getblacklist" /\ global_cansave = 1
    /\ h_bl.mem = <<>>
    /\ h_bl.sto = <<[i \in 0..31 |-> TRUE]>>
    /\ h_bl.lost
    /\ h_hist.restarted
    /\ last.ret = [i \in 0..31 |-> TRUE]

\* C19, in the program run from its start (SpecBoot): global_selection stays
\* within 0..maxselection-1 (maxselection 2 with the EEPROM, 1 without);
\* loadsave_loop calls savestate_load only in a frame where controller_isa
\* answered true, the crashed flag was true and global_selection was 0, and it
\* then changes to LEVEL_MINIGAME; in every other frame where controller_isa
\* answered true it changes to LEVEL_MAINMENU, after calling savestate_clear
\* exactly when the crashed flag was true; and while the clear of a declined
\* restore is the last write that touched the flag, the EEPROM has the flag 0
\* and a boot that finds the EEPROM has loadsave_init change to LEVEL_MAINMENU
\* and loadsave_loop return before it handles input or draws the prompt.
Thm_C19 ==
    /\ [](global_selection \in 0..(maxselection - 1))
    /\ [][(last'.op = "loadsave_loop" /\ last'.calls = <<"savestate_load">>)
             => /\ last'.isa
                /\ checkcrashed(global_gamesave)
                /\ global_selection = 0
                /\ last'.changeto = <<LEVEL_MINIGAME>>
                /\ level' = LEVEL_MINIGAME]_vars
    /\ [][(/\ last'.op = "loadsave_loop" /\ last'.isa
            /\ ~(checkcrashed(global_gamesave) /\ global_selection = 0))
             => /\ last'.changeto = <<LEVEL_MAINMENU>>
                /\ level' = LEVEL_MAINMENU
                /\ last'.calls = IF checkcrashed(global_gamesave)
                                 THEN <<"savestate_clear">> ELSE <<>>]_vars
    /\ [][(last'.op = "loadsave_loop" /\ ~last'.isa)
             => (last'.calls = <<>> /\ level' = level)]_vars
    /\ [](h_hist.kind = "declined" => eeprom[OFF_crashedflag] = 0)
    /\ []((last.op = "loadsave_init" /\ global_cansave = 1 /\ h_hist.kind = "declined")
             => (level = LEVEL_MAINMENU /\ last.changeto = <<LEVEL_MAINMENU>>))
    /\ [][(/\ last'.op = "loadsave_loop" /\ global_cansave = 1
            /\ h_hist.kind = "declined" /\ h_hist'.kind = "declined")
             => (last'.returned /\ level' = LEVEL_MAINMENU)]_vars

Wit_C19 ==
    /\ last.op = "loadsave_loop" /\ last.returned
    /\ global_cansave = 1
    /\ h_hist.kind = "declined" /\ h_hist.restarted
    /\ h_fullsaves > 0
    /\ level = LEVEL_MAINMENU

====
